---------------------------- MODULE Spec2Model ----------------------------
(***************************************************************************)
(* A model of rotations2d.py: the 2D rotation utilities                    *)
(*   rotate_vector_collection, random_rotation,                            *)
(*   rotation_matrices_from_angles, rotation_matrices_from_vectors,        *)
(*   random_perpendicular_directions and rotation2d.                       *)
(*                                                                         *)
(* Numbers are exact rationals n/d, extended with the IEEE values NaN      *)
(* (0/0), +inf (1/0) and -inf (-1/0) that numpy produces on a division by  *)
(* zero.  Angles are numbers in units of a quarter turn (pi/2), so that    *)
(* sine and cosine are exact.  An ndarray is a record of its shape and its *)
(* row-major data; a raised exception is a record that names it.           *)
(***************************************************************************)
EXTENDS Integers, Sequences, FiniteSets, TLC

\* ------------------------------------------------------------------------
\* Bounds of the model
\* ------------------------------------------------------------------------

\* longest batch of vectors or angles that is enumerated
MaxN == 2

\* longest batch of matrices and of vectors handed to rotate_vector_collection
MaxLen == 3

\* threads that call random_perpendicular_directions at the same time
NThreads == 2

\* angles run over -MaxTurns..MaxTurns quarter turns
MaxTurns == 4

\* seeds 0..MaxSeed are passed to random_perpendicular_directions
MaxSeed == 2

\* number of states of the process-wide random generator
RngMod == 5

\* ------------------------------------------------------------------------
\* float arithmetic, as exact rationals with NaN and the infinities
\* ------------------------------------------------------------------------

Abs(x) == IF x < 0 THEN -x ELSE x

Sign(x) == IF x < 0 THEN -1 ELSE IF x > 0 THEN 1 ELSE 0

RECURSIVE GCD(_, _)
GCD(a, b) == IF b = 0 THEN a ELSE GCD(b, a % b)

\* the number n/d in lowest terms; d = 0 gives NaN (n = 0) or a signed infinity
Rat(n, d) ==
    IF d = 0 THEN [n |-> Sign(n), d |-> 0]
    ELSE LET g == GCD(Abs(n), Abs(d))
             s == Sign(d)
         IN  [n |-> s * (n \div g), d |-> s * (d \div g)]

Int2Num(k) == Rat(k, 1)

NaN == Rat(0, 0)

Zero == Rat(0, 1)

One == Rat(1, 1)

Neg(x) == [n |-> -(x.n), d |-> x.d]

Mul(x, y) == Rat(x.n * y.n, x.d * y.d)

Add(x, y) ==
    IF x.d = 0 /\ y.d = 0
    THEN (IF x.n = y.n THEN x ELSE NaN)
    ELSE Rat(x.n * y.d + y.n * x.d, x.d * y.d)

Sub(x, y) == Add(x, Neg(y))

\* x / y as numpy divides: 0/0 is NaN, a non-zero x over 0 is a signed infinity
Div(x, y) ==
    LET n == x.n * y.d
        d == x.d * y.n
    IN  IF d < 0 THEN Rat(-n, -d) ELSE Rat(n, d)

\* the integer square root of a perfect square
ISqrt(k) == CHOOSE r \in 0..k : r * r = k

\* np.sqrt on the numbers whose root is rational
Sqrt(x) ==
    IF x.d = 0 THEN (IF x.n = 1 THEN x ELSE NaN)
    ELSE IF x.n < 0 THEN NaN
    ELSE Rat(ISqrt(x.n), ISqrt(x.d))

\* the whole number of quarter turns of an angle (the model holds no other angle)
QuarterTurns(x) == CHOOSE q \in {x.n} : x.d = 1

\* np.sin of an angle given in quarter turns: sin(k * pi/2)
Sin(x) ==
    IF x.d = 0 THEN NaN
    ELSE LET k == QuarterTurns(x) % 4
         IN  Int2Num(IF k = 1 THEN 1 ELSE IF k = 3 THEN -1 ELSE 0)

\* np.cos of an angle given in quarter turns: cos(k * pi/2)
Cos(x) ==
    IF x.d = 0 THEN NaN
    ELSE LET k == QuarterTurns(x) % 4
         IN  Int2Num(IF k = 0 THEN 1 ELSE IF k = 2 THEN -1 ELSE 0)

\* np.arctan2(y, x) in quarter turns, for a point (x, y) of the unit circle
\* that lies on an axis: the angle in (-pi, pi] with that cosine and sine
Atan2(y, x) ==
    IF x.d = 0 \/ y.d = 0 THEN NaN
    ELSE Int2Num(CHOOSE k \in {-1, 0, 1, 2} :
                    Cos(Int2Num(k)) = x /\ Sin(Int2Num(k)) = y)

\* np.pi, in quarter turns
Pi == Int2Num(2)

RECURSIVE SumSeq(_)
SumSeq(s) == IF s = <<>> THEN Zero ELSE Add(Head(s), SumSeq(Tail(s)))

\* ------------------------------------------------------------------------
\* ndarrays and exceptions
\* ------------------------------------------------------------------------

Arr(shape, data) == [err |-> "none", shape |-> shape, data |-> data]

Raise(e) == [err |-> e, shape |-> <<>>, data |-> <<>>]

\* Python's None
None == Raise("None")

IsArr(a) == a.err = "none"

IsError(a) == a.err \notin {"none", "None"}

RECURSIVE Size(_)
Size(shape) == IF shape = <<>> THEN 1 ELSE Head(shape) * Size(Tail(shape))

NDim(a) == Len(a.shape)

\* a[i, j] of a 2-D array and a[i, j, k] of a 3-D array (indices from 1)
At2(a, i, j) == a.data[(i - 1) * a.shape[2] + j]

At3(a, i, j, k) == a.data[((i - 1) * a.shape[2] + (j - 1)) * a.shape[3] + k]

\* the row and the column of the t-th entry of a 2-D array with m columns
RowOf(t, m) == ((t - 1) \div m) + 1

ColOf(t, m) == ((t - 1) % m) + 1

\* the length two sizes broadcast to, -1 when they cannot be broadcast
BDim(x, y) == IF x = y THEN x ELSE IF x = 1 THEN y ELSE IF y = 1 THEN x ELSE -1

\* the index into a dimension of size n when it is broadcast
BIdx(n, i) == IF n = 1 THEN 1 ELSE i

\* the elementwise operations the module uses
Apply1(f, x) ==
    CASE f = "sin" -> Sin(x)
      [] f = "cos" -> Cos(x)
      [] f = "neg" -> Neg(x)
      [] f = "sqrt" -> Sqrt(x)

Apply2(f, x, y) ==
    CASE f = "mul" -> Mul(x, y)
      [] f = "div" -> Div(x, y)
      [] f = "sub" -> Sub(x, y)

\* an elementwise binary operation on two 2-D arrays, with broadcasting
Broadcast2(f, a, b) ==
    IF ~IsArr(a) THEN a
    ELSE IF ~IsArr(b) THEN b
    ELSE LET n == BDim(a.shape[1], b.shape[1])
             m == BDim(a.shape[2], b.shape[2])
         IN  IF n < 0 \/ m < 0 THEN Raise("ValueError")
             ELSE Arr(<<n, m>>, [t \in 1..(n * m) |->
                    Apply2(f, At2(a, BIdx(a.shape[1], RowOf(t, m)), BIdx(a.shape[2], ColOf(t, m))),
                              At2(b, BIdx(b.shape[1], RowOf(t, m)), BIdx(b.shape[2], ColOf(t, m))))])

\* an elementwise unary operation
Map1(f, a) ==
    IF ~IsArr(a) THEN a ELSE Arr(a.shape, [t \in 1..Len(a.data) |-> Apply1(f, a.data[t])])

\* an array times a scalar, and plus a scalar
Scale(a, c) ==
    IF ~IsArr(a) THEN a ELSE Arr(a.shape, [t \in 1..Len(a.data) |-> Mul(a.data[t], c)])

Shift(a, c) ==
    IF ~IsArr(a) THEN a ELSE Arr(a.shape, [t \in 1..Len(a.data) |-> Add(a.data[t], c)])

\* a.reshape(shape)
Reshape(a, shape) ==
    IF ~IsArr(a) THEN a
    ELSE IF Size(shape) # Len(a.data) THEN Raise("ValueError")
    ELSE Arr(shape, a.data)

\* np.sum(a, axis=1) of a 2-D array
SumAxis1(a) ==
    IF ~IsArr(a) THEN a
    ELSE Arr(<<a.shape[1]>>,
             [i \in 1..a.shape[1] |-> SumSeq([j \in 1..a.shape[2] |-> At2(a, i, j)])])

\* a.T of a 2-D array
Transpose(a) ==
    IF ~IsArr(a) THEN a
    ELSE LET n == a.shape[2]
             m == a.shape[1]
         IN  Arr(<<n, m>>, [t \in 1..(n * m) |-> At2(a, ColOf(t, m), RowOf(t, m))])

\* np.dot of two 2-D arrays
Dot(a, b) ==
    IF ~IsArr(a) THEN a
    ELSE IF ~IsArr(b) THEN b
    ELSE IF a.shape[2] # b.shape[1] THEN Raise("ValueError")
    ELSE LET n == a.shape[1]
             m == b.shape[2]
         IN  Arr(<<n, m>>, [t \in 1..(n * m) |->
                SumSeq([k \in 1..a.shape[2] |->
                    Mul(At2(a, RowOf(t, m), k), At2(b, k, ColOf(t, m)))])])

\* np.einsum('ijk,ik->ij', a, b): out[i, j] = sum over k of a[i, j, k] * b[i, k].
\* A dimension of size 1 is broadcast against the other operand's size.
Einsum(a, b) ==
    IF ~IsArr(a) THEN a
    ELSE IF ~IsArr(b) THEN b
    ELSE IF NDim(a) # 3 \/ NDim(b) # 2 THEN Raise("ValueError")
    ELSE LET n == BDim(a.shape[1], b.shape[1])
             kk == BDim(a.shape[3], b.shape[2])
             m == a.shape[2]
         IN  IF n < 0 \/ kk < 0 THEN Raise("ValueError")
             ELSE Arr(<<n, m>>, [t \in 1..(n * m) |->
                    SumSeq([k \in 1..kk |->
                        Mul(At3(a, BIdx(a.shape[1], RowOf(t, m)), ColOf(t, m), BIdx(a.shape[3], k)),
                            At2(b, BIdx(b.shape[1], RowOf(t, m)), BIdx(b.shape[2], k)))])])

\* np.atleast_1d: a scalar becomes an array of one element
AtLeast1d(a) ==
    IF ~IsArr(a) THEN a
    ELSE IF NDim(a) = 0 THEN Arr(<<1>>, a.data) ELSE a

\* np.atleast_2d: a single vector becomes a batch of one vector
AtLeast2d(a) ==
    IF ~IsArr(a) THEN a
    ELSE IF NDim(a) = 0 THEN Arr(<<1, 1>>, a.data)
    ELSE IF NDim(a) = 1 THEN Arr(<<1, a.shape[1]>>, a.data)
    ELSE a

\* np.zeros(shape)
Zeros(shape) == Arr(shape, [t \in 1..Size(shape) |-> Zero])

\* R[:, r, c] = vals for a 3-D array R and a 1-D array vals (r, c from 0)
SetEntry(R, r, c, vals) ==
    IF ~IsArr(R) THEN R
    ELSE IF ~IsArr(vals) THEN vals
    ELSE IF BDim(R.shape[1], vals.shape[1]) # R.shape[1] THEN Raise("ValueError")
    ELSE LET per == R.shape[2] * R.shape[3]
             here(t) == ((t - 1) % per) = r * R.shape[3] + c
             item(t) == ((t - 1) \div per) + 1
         IN  Arr(R.shape, [t \in 1..Len(R.data) |->
                    IF here(t) THEN vals.data[BIdx(vals.shape[1], item(t))]
                    ELSE R.data[t]])

\* one 2D vector
Vec(a, b) == <<a, b>>

\* a batch of vectors, as the ndarray of shape (len, 2)
MkVecs(seq) ==
    Arr(<<Len(seq), 2>>,
        [t \in 1..(2 * Len(seq)) |-> seq[((t - 1) \div 2) + 1][((t - 1) % 2) + 1]])

\* a batch of 2x2 matrices, as the ndarray of shape (len, 2, 2)
MkMats(seq) ==
    Arr(<<Len(seq), 2, 2>>,
        [t \in 1..(4 * Len(seq)) |->
            seq[((t - 1) \div 4) + 1][(((t - 1) % 4) \div 2) + 1][((t - 1) % 2) + 1]])

\* one 2x2 matrix, as the ndarray of shape (2, 2)
MkMat(m) == Arr(<<2, 2>>, <<m[1][1], m[1][2], m[2][1], m[2][2]>>)

\* a 1-D array and a scalar (0-d array)
MkList(seq) == Arr(<<Len(seq)>>, seq)

MkScalar(x) == Arr(<<>>, <<x>>)

\* ------------------------------------------------------------------------
\* the helpers imported from vector_calculations
\* ------------------------------------------------------------------------

\* elementwise_dot(x, y): the dot product of corresponding vectors
elementwise_dot(x, y) == SumAxis1(Broadcast2("mul", AtLeast2d(x), AtLeast2d(y)))

\* elementwise_norm(x): the L2 norm of each vector
elementwise_norm(x) == Map1("sqrt", elementwise_dot(x, x))

\* normalized_vectors(vectors): each vector divided by its norm
normalized_vectors(vectors) ==
    LET v == AtLeast2d(vectors)
    IN  IF ~IsArr(v) THEN v
        ELSE Broadcast2("div", v, Reshape(elementwise_norm(v), <<v.shape[1], 1>>))

\* the vectors (y, -x) of a batch of vectors (x, y)
Perp(v) ==
    IF ~IsArr(v) THEN v
    ELSE Arr(v.shape, [t \in 1..Len(v.data) |->
            IF ColOf(t, 2) = 1 THEN At2(v, RowOf(t, 2), 2) ELSE Neg(At2(v, RowOf(t, 2), 1))])

\* angles_between_list_of_vectors(v0, v1): for each pair the signed angle that
\* rotates v0 onto v1, positive in the sense in which the matrices of
\* rotation_matrices_from_angles turn
angles_between_list_of_vectors(v0, v1) ==
    LET cosines == elementwise_dot(v0, v1)
        sines == elementwise_dot(v1, Perp(AtLeast2d(v0)))
    IN  IF ~IsArr(cosines) THEN cosines
        ELSE IF ~IsArr(sines) THEN sines
        ELSE Arr(cosines.shape,
                 [i \in 1..cosines.shape[1] |-> Atan2(sines.data[i], cosines.data[i])])

\* ------------------------------------------------------------------------
\* rotations2d.py
\* ------------------------------------------------------------------------

\* np.einsum(..., optimize=optimize): a numpy whose einsum has no such
\* keyword raises TypeError
EinsumKw(a, b, optimize, hasOptimize) ==
    IF ~hasOptimize THEN Raise("TypeError") ELSE Einsum(a, b)

\* a slip: the shared matrix multiplied from the wrong side
rotate_vector_collection_wrong_side(rotation_matrices, vectors, optimize, hasOptimize) ==
    IF rotation_matrices.shape = <<2, 2>>
    THEN Dot(vectors, rotation_matrices)
    ELSE Einsum(rotation_matrices, vectors)

\* a slip: the einsum subscripts 'ikj,ik->ij', which apply each transposed matrix
rotate_vector_collection_transposed(rotation_matrices, vectors, optimize, hasOptimize) ==
    IF rotation_matrices.shape = <<2, 2>>
    THEN Transpose(Dot(rotation_matrices, Transpose(vectors)))
    ELSE LET swapped == Arr(rotation_matrices.shape,
                            [t \in 1..Len(rotation_matrices.data) |->
                                At3(rotation_matrices, ((t - 1) \div 4) + 1,
                                    ((t - 1) % 2) + 1, (((t - 1) % 4) \div 2) + 1)])
         IN  Einsum(swapped, vectors)

rotate_vector_collection(rotation_matrices, vectors, optimize, hasOptimize) ==
    IF rotation_matrices.shape = <<2, 2>>
    THEN Transpose(Dot(rotation_matrices, Transpose(vectors)))
    ELSE LET r == EinsumKw(rotation_matrices, vectors, optimize, hasOptimize)
         IN  IF r.err = "TypeError" THEN Einsum(rotation_matrices, vectors) ELSE r

\* a slip: the usual counter-clockwise convention, the signs of the sines exchanged
rotation_matrices_from_angles_ccw(angles) ==
    LET a == AtLeast1d(angles)
        sina == Map1("sin", a)
        cosa == Map1("cos", a)
        R1 == SetEntry(Zeros(<<a.shape[1], 2, 2>>), 0, 0, cosa)
        R2 == SetEntry(R1, 1, 1, cosa)
        R3 == SetEntry(R2, 0, 1, Map1("neg", sina))
    IN  SetEntry(R3, 1, 0, sina)

\* a slip: the lower-left entry not negated
rotation_matrices_from_angles_no_minus(angles) ==
    LET a == AtLeast1d(angles)
        sina == Map1("sin", a)
        cosa == Map1("cos", a)
        R1 == SetEntry(Zeros(<<a.shape[1], 2, 2>>), 0, 0, cosa)
        R2 == SetEntry(R1, 1, 1, cosa)
        R3 == SetEntry(R2, 0, 1, sina)
    IN  SetEntry(R3, 1, 0, sina)

rotation_matrices_from_angles(angles) ==
    LET a == AtLeast1d(angles)
        npts == a.shape[1]
        sina == Map1("sin", a)
        cosa == Map1("cos", a)
        R0 == Zeros(<<npts, 2, 2>>)
        R1 == SetEntry(R0, 0, 0, cosa)
        R2 == SetEntry(R1, 1, 1, cosa)
        R3 == SetEntry(R2, 0, 1, sina)
    IN  SetEntry(R3, 1, 0, Map1("neg", sina))

\* a Python call of rotation_matrices_from_angles, which takes one argument
Call_rotation_matrices_from_angles(arguments) ==
    IF Len(arguments) # 1 THEN Raise("TypeError")
    ELSE rotation_matrices_from_angles(arguments[1])

rotation_matrices_from_vectors(v0, v1) ==
    LET n0 == normalized_vectors(v0)
        n1 == normalized_vectors(v1)
        angles == angles_between_list_of_vectors(n0, n1)
    IN  IF IsError(angles) THEN angles ELSE rotation_matrices_from_angles(angles)

\* ------------------------------------------------------------------------
\* numpy's process-wide random generator and the scoped seeding context
\* ------------------------------------------------------------------------

\* The generator is a state in 0..RngMod-1.  A draw is a function of the
\* state and moves the state on by the number of samples drawn.

\* the pairs in [0, 1) x [0, 1) a draw can give (those with a rational norm)
PairSamples ==
    <<Vec(Rat(3, 5), Rat(4, 5)), Vec(Rat(1, 2), Zero), Vec(Zero, Zero),
      Vec(Rat(4, 5), Rat(3, 5)), Vec(Zero, Rat(1, 4))>>

\* the numbers in [0, 1) a single draw can give
ScalarSamples == <<Zero, Rat(1, 2)>>

PairSample(state) == PairSamples[(state % Len(PairSamples)) + 1]

Advance(state, count) == (state + count) % RngMod

\* np.random.random((npts, 2)) drawn at the given state
RandomVectors(state, npts) == MkVecs([i \in 1..npts |-> PairSample(Advance(state, i - 1))])

\* np.random.random((2,)) drawn at the given state
RandomVector(state) == MkList(PairSample(state))

\* np.random.random(size=1) drawn at the given state
RandomScalars(state) == MkList(<<ScalarSamples[(state % Len(ScalarSamples)) + 1]>>)

\* np.random.seed(seed): the state a seed stands for; seed None takes fresh entropy
SeedState(seed, entropy) ==
    IF seed = None THEN entropy ELSE seed.data[1].n % RngMod

\* NumpyRNGContext(seed).__enter__: the state is saved, then the generator seeded
ContextEnter(seed, state, entropy) ==
    [startstate |-> state, rng |-> SeedState(seed, entropy)]

\* NumpyRNGContext(seed).__exit__: the saved state is set again
ContextExit(startstate) == startstate

\* random_rotation(vectors) called with the generator at `state`: what it
\* returns or raises, the angle it drew, and the state it leaves
random_rotation(vectors, state) ==
    LET ran_angle == Scale(RandomScalars(state), Pi)
        state1 == Advance(state, 1)
        ran_direction == Shift(Scale(normalized_vectors(RandomVector(state1)), Int2Num(2)),
                               Int2Num(-1))
        state2 == Advance(state1, 2)
        ran_rot == Call_rotation_matrices_from_angles(<<ran_angle, ran_direction>>)
    IN  [result |-> IF IsError(ran_rot) THEN ran_rot
                    ELSE rotate_vector_collection(ran_rot, vectors, FALSE, TRUE),
         drawn |-> ran_angle,
         rng |-> state2]

\* a slip: the final division by the norm left out
perpendicular_part_not_normalized(v, w) ==
    LET npts == v.shape[1]
        e_v == Broadcast2("div", v, Reshape(elementwise_norm(v), <<npts, 1>>))
        e_w == Broadcast2("div", w, Reshape(elementwise_norm(w), <<npts, 1>>))
        v_dot_w == Reshape(elementwise_dot(e_v, e_w), <<npts, 1>>)
    IN  Broadcast2("sub", e_w, Broadcast2("mul", v_dot_w, e_v))

\* random_perpendicular_directions after the draw: the part of w orthogonal
\* to v, normalized
perpendicular_part(v, w) ==
    LET npts == v.shape[1]
        vnorms == Reshape(elementwise_norm(v), <<npts, 1>>)
        wnorms == Reshape(elementwise_norm(w), <<npts, 1>>)
        e_v == Broadcast2("div", v, vnorms)
        e_w == Broadcast2("div", w, wnorms)
        v_dot_w == Reshape(elementwise_dot(e_v, e_w), <<npts, 1>>)
        e_v_perp == Broadcast2("sub", e_w, Broadcast2("mul", v_dot_w, e_v))
        e_v_perp_norm == Reshape(elementwise_norm(e_v_perp), <<npts, 1>>)
    IN  Broadcast2("div", e_v_perp, e_v_perp_norm)

\* a slip: the draw made after the seeding context has been left
random_perpendicular_directions_draw_outside(v, seed, state, entropy, fails) ==
    LET v2 == AtLeast2d(v)
        npts == v2.shape[1]
        w == IF fails THEN Raise("MemoryError") ELSE RandomVectors(state, npts)
    IN  [result |-> IF IsError(w) THEN w ELSE perpendicular_part(v2, w),
         drawn |-> w,
         rng |-> IF fails THEN state ELSE Advance(state, 2 * npts)]

\* random_perpendicular_directions(v, seed) called with the generator at
\* `state`: what it returns or raises, the w it drew, and the state it leaves.
\* `fails` is the draw raising (MemoryError) inside the with block.
random_perpendicular_directions(v, seed, state, entropy, fails) ==
    LET v2 == AtLeast2d(v)
        npts == v2.shape[1]
        entered == ContextEnter(seed, state, entropy)
        w == IF fails THEN Raise("MemoryError") ELSE RandomVectors(entered.rng, npts)
        left == ContextExit(entered.startstate)
    IN  [result |-> IF IsError(w) THEN w ELSE perpendicular_part(v2, w),
         drawn |-> w,
         rng |-> left]

rotation2d(ux, uy) ==
    LET N == ux.shape[1]
        ex == Reshape(MkList([t \in 1..(2 * N) |-> IF t % 2 = 1 THEN One ELSE Zero]), <<N, 3>>)
        ey == Reshape(MkList([t \in 1..(2 * N) |-> IF t % 2 = 1 THEN Zero ELSE One]), <<N, 3>>)
        nx == normalized_vectors(ux)
        ny == normalized_vectors(uy)
        r0 == Zeros(<<N, 2, 2>>)
        r1 == SetEntry(r0, 0, 0, elementwise_dot(ex, nx))
        r2 == SetEntry(r1, 0, 1, elementwise_dot(ex, ny))
        r3 == SetEntry(r2, 1, 0, elementwise_dot(ey, nx))
    IN  IF IsError(ex) THEN ex
        ELSE IF IsError(ey) THEN ey
        ELSE SetEntry(r3, 1, 1, elementwise_dot(ey, ny))

\* ------------------------------------------------------------------------
\* state
\* ------------------------------------------------------------------------

VARIABLES
    op,        \* the function called last
    args,      \* its arguments
    result,    \* what it returned, or the exception it raised
    rng,       \* the state of numpy's process-wide random generator
    drawn,     \* what the last call drew from the generator
    rngBefore, \* the generator state when the last random call (or the first thread) began
    hist,      \* the last two seeded calls of random_perpendicular_directions
    tpc,       \* per thread: where its call of random_perpendicular_directions stands
    targs,     \* per thread: the arguments <<v, seed>> of its call
    tstart,    \* per thread: the state its seeding context saved
    tdrawn,    \* per thread: the w it drew
    tresult    \* per thread: what its call returned

callVars == <<op, args, result>>

randVars == <<rng, drawn, rngBefore>>

threadVars == <<tpc, targs, tstart, tdrawn, tresult>>

vars == <<op, args, result, rng, drawn, rngBefore, hist, tpc, targs, tstart, tdrawn, tresult>>

\* ------------------------------------------------------------------------
\* the inputs that are enumerated
\* ------------------------------------------------------------------------

\* the threads that call random_perpendicular_directions concurrently
Threads == 1..NThreads

\* the sequences over S of length at most n
Seqs(S, n) == UNION {[1..k -> S] : k \in 0..n}

IdentityMat == <<Vec(One, Zero), Vec(Zero, One)>>

QuarterMat == <<Vec(Zero, One), Vec(Int2Num(-1), Zero)>>

GeneralMat == <<Vec(One, Int2Num(2)), Vec(Int2Num(3), Int2Num(4))>>

\* matrices and vectors handed to rotate_vector_collection
SharedMatChoices == {IdentityMat, QuarterMat, GeneralMat}

MatChoices == {QuarterMat, GeneralMat}

VecChoices == {Vec(Int2Num(-2), One), Vec(Rat(3, 5), Rat(4, 5))}

MatInputs ==
    {MkMat(m) : m \in SharedMatChoices} \cup {MkMats(q) : q \in Seqs(MatChoices, MaxLen)}

VecInputs == {MkVecs(q) : q \in Seqs(VecChoices, MaxLen)}

Bool(b) == MkScalar(IF b THEN One ELSE Zero)

\* angles handed to rotation_matrices_from_angles: a scalar or a list
AngleChoices == {Int2Num(k) : k \in (-MaxTurns)..MaxTurns}

AngleInputs ==
    {MkScalar(a) : a \in AngleChoices} \cup {MkList(q) : q \in Seqs(AngleChoices, MaxN)}

\* pairs (v0[i], v1[i]) handed to rotation_matrices_from_vectors: unit vectors
\* a whole number of quarter turns apart, two pairs that are not normalized,
\* and a pair with a zero vector
AxisUnits == {Vec(One, Zero), Vec(Zero, One), Vec(Int2Num(-1), Zero), Vec(Zero, Int2Num(-1))}

SkewUnits == {Vec(Rat(3, 5), Rat(4, 5)), Vec(Rat(-4, 5), Rat(3, 5))}

PairChoices ==
    (AxisUnits \X AxisUnits) \cup (SkewUnits \X SkewUnits)
    \cup {<<Vec(Zero, Int2Num(2)), Vec(One, Zero)>>,
          <<Vec(Int2Num(3), Int2Num(4)), Vec(Int2Num(-4), Int2Num(3))>>,
          <<Vec(Zero, Zero), Vec(One, Zero)>>}

PairInputs == Seqs(PairChoices, MaxN)

\* basis vectors handed to rotation2d
BasisChoices == {Vec(One, Zero), Vec(Zero, One), Vec(Zero, Int2Num(2))}

BasisInputs == {MkVecs(q) : q \in Seqs(BasisChoices, MaxN)}

\* ------------------------------------------------------------------------
\* actions: one call of one function
\* ------------------------------------------------------------------------

Init ==
    /\ op = "none"
    /\ args = <<>>
    /\ result = None
    /\ rng = 0
    /\ drawn = None
    /\ rngBefore = 0
    /\ hist = <<>>
    /\ tpc = [t \in Threads |-> "idle"]
    /\ targs = [t \in Threads |-> <<None, None>>]
    /\ tstart = [t \in Threads |-> 0]
    /\ tdrawn = [t \in Threads |-> None]
    /\ tresult = [t \in Threads |-> None]

\* no call is under way: the caller is free to make the next one
Idle == op = "none"

RotateVectorCollection(rotation_matrices, vectors, optimize, hasOptimize) ==
    /\ Idle
    /\ op' = "rotate_vector_collection"
    /\ args' = <<rotation_matrices, vectors, Bool(optimize)>>
    /\ result' = rotate_vector_collection(rotation_matrices, vectors, optimize, hasOptimize)
    /\ UNCHANGED <<randVars, hist, threadVars>>

RotationMatricesFromAngles(angles) ==
    /\ Idle
    /\ op' = "rotation_matrices_from_angles"
    /\ args' = <<angles>>
    /\ result' = rotation_matrices_from_angles(angles)
    /\ UNCHANGED <<randVars, hist, threadVars>>

RotationMatricesFromVectors(v0, v1) ==
    /\ Idle
    /\ op' = "rotation_matrices_from_vectors"
    /\ args' = <<v0, v1>>
    /\ result' = rotation_matrices_from_vectors(v0, v1)
    /\ UNCHANGED <<randVars, hist, threadVars>>

Rotation2d(ux, uy) ==
    /\ Idle
    /\ op' = "rotation2d"
    /\ args' = <<ux, uy>>
    /\ result' = rotation2d(ux, uy)
    /\ UNCHANGED <<randVars, hist, threadVars>>

\* the caller has taken the result of the call
Return ==
    /\ ~Idle
    /\ op' = "none"
    /\ args' = <<>>
    /\ result' = None
    /\ drawn' = None
    /\ rngBefore' = rng
    /\ UNCHANGED <<rng, hist, threadVars>>

Next ==
    \/ \E rm \in MatInputs, v \in VecInputs, optimize \in BOOLEAN, hasOptimize \in BOOLEAN :
          RotateVectorCollection(rm, v, optimize, hasOptimize)
    \/ \E a \in AngleInputs : RotationMatricesFromAngles(a)
    \/ \E q \in PairInputs :
          RotationMatricesFromVectors(MkVecs([i \in 1..Len(q) |-> q[i][1]]),
                                      MkVecs([i \in 1..Len(q) |-> q[i][2]]))
    \/ \E ux \in BasisInputs, uy \in BasisInputs : Rotation2d(ux, uy)
    \/ Return

Spec == Init /\ [][Next]_vars

\* ------------------------------------------------------------------------
\* the functions that draw random numbers, called one after the other
\* ------------------------------------------------------------------------

\* vectors handed to random_perpendicular_directions and random_rotation
PerpChoices ==
    {Vec(One, Zero), Vec(Int2Num(3), Int2Num(4)), Vec(Zero, Int2Num(-2)),
     Vec(Int2Num(-4), Int2Num(3)), Vec(Zero, Zero)}

PerpInputs ==
    {MkList(v) : v \in PerpChoices} \cup {MkVecs(q) : q \in Seqs(PerpChoices, MaxN)}

Seeds == {MkScalar(Int2Num(k)) : k \in 0..MaxSeed}

RngStates == 0..(RngMod - 1)

RandomRotation(vectors) ==
    /\ Idle
    /\ LET r == random_rotation(vectors, rng)
       IN  /\ op' = "random_rotation"
           /\ args' = <<vectors>>
           /\ result' = r.result
           /\ drawn' = r.drawn
           /\ rng' = r.rng
    /\ rngBefore' = rng
    /\ UNCHANGED <<hist, threadVars>>

\* one call of random_perpendicular_directions, and the record of it
PerpCall(v, seed, entropy, fails) ==
    /\ Idle
    /\ LET r == random_perpendicular_directions(v, seed, rng, entropy, fails)
       IN  /\ op' = "random_perpendicular_directions"
           /\ args' = <<v, seed>>
           /\ result' = r.result
           /\ drawn' = r.drawn
           /\ rng' = r.rng
    /\ rngBefore' = rng
    /\ UNCHANGED threadVars

RandomPerpendicularDirections(v, seed, entropy, fails) ==
    /\ PerpCall(v, seed, entropy, fails)
    /\ UNCHANGED hist

NextRandom ==
    \/ \E q \in Seqs(PerpChoices, MaxN) : RandomRotation(MkVecs(q))
    \/ \E v \in PerpInputs, seed \in Seeds, fails \in BOOLEAN :
          RandomPerpendicularDirections(v, seed, 0, fails)
    \/ \E v \in PerpInputs, entropy \in RngStates :
          RandomPerpendicularDirections(v, None, entropy, FALSE)
    \/ Return

SpecRandom == Init /\ [][NextRandom]_vars

\* ------------------------------------------------------------------------
\* seeded calls, remembered by the caller
\* ------------------------------------------------------------------------

SeedInputs ==
    {MkList(Vec(One, Zero)), MkList(Vec(Int2Num(-4), Int2Num(3))),
     MkVecs(<<Vec(Int2Num(3), Int2Num(4))>>),
     MkVecs(<<Vec(One, Zero), Vec(Int2Num(-4), Int2Num(3))>>)}

\* the caller takes the result of a seeded call that returned, and keeps it
\* with the arguments and the generator state the call began in
ReturnRecorded ==
    /\ op = "random_perpendicular_directions"
    /\ args[2] # None
    /\ IsArr(result)
    /\ hist' = <<[v |-> args[1], seed |-> args[2], before |-> rngBefore, result |-> result]>>
    /\ op' = "none"
    /\ args' = <<>>
    /\ result' = None
    /\ drawn' = None
    /\ rngBefore' = rng
    /\ UNCHANGED <<rng, threadVars>>

NextSeed ==
    \/ RandomRotation(MkVecs(<<Vec(One, Zero)>>))
    \/ \E v \in SeedInputs, seed \in Seeds, fails \in BOOLEAN :
          RandomPerpendicularDirections(v, seed, 0, fails)
    \/ \E v \in SeedInputs, entropy \in RngStates :
          RandomPerpendicularDirections(v, None, entropy, FALSE)
    \/ ReturnRecorded
    \/ Return

SpecSeed == Init /\ [][NextSeed]_vars

\* ------------------------------------------------------------------------
\* seeded calls of random_perpendicular_directions on concurrent threads
\* ------------------------------------------------------------------------

ThreadInputs ==
    {MkList(Vec(One, Zero)), MkVecs(<<Vec(Int2Num(-4), Int2Num(3)), Vec(One, Zero)>>)}

\* thread t calls random_perpendicular_directions(v, seed) and enters the
\* context as far as saving the generator state (random.get_state())
ThreadCall(t, v, seed) ==
    /\ tpc[t] = "idle"
    /\ targs' = [targs EXCEPT ![t] = <<v, seed>>]
    /\ tstart' = [tstart EXCEPT ![t] = ContextEnter(seed, rng, 0).startstate]
    /\ rngBefore' = IF \A u \in Threads : tpc[u] = "idle" THEN rng ELSE rngBefore
    /\ tpc' = [tpc EXCEPT ![t] = "saved"]
    /\ UNCHANGED <<callVars, rng, drawn, hist, tdrawn, tresult>>

\* thread t seeds the generator (random.seed(seed))
ThreadSeed(t) ==
    /\ tpc[t] = "saved"
    /\ rng' = ContextEnter(targs[t][2], rng, 0).rng
    /\ tpc' = [tpc EXCEPT ![t] = "seeded"]
    /\ UNCHANGED <<callVars, drawn, rngBefore, hist, targs, tstart, tdrawn, tresult>>

\* thread t draws w (np.random.random((npts, 2)))
ThreadDraw(t) ==
    /\ tpc[t] = "seeded"
    /\ LET npts == AtLeast2d(targs[t][1]).shape[1]
       IN  /\ tdrawn' = [tdrawn EXCEPT ![t] = RandomVectors(rng, npts)]
           /\ rng' = Advance(rng, 2 * npts)
    /\ tpc' = [tpc EXCEPT ![t] = "drawn"]
    /\ UNCHANGED <<callVars, drawn, rngBefore, hist, targs, tstart, tresult>>

\* thread t leaves the context (random.set_state(startstate)), computes the
\* perpendicular directions and returns
ThreadRestore(t) ==
    /\ tpc[t] = "drawn"
    /\ rng' = ContextExit(tstart[t])
    /\ tresult' = [tresult EXCEPT ![t] = perpendicular_part(AtLeast2d(targs[t][1]), tdrawn[t])]
    /\ tpc' = [tpc EXCEPT ![t] = "done"]
    /\ UNCHANGED <<callVars, drawn, rngBefore, hist, targs, tstart, tdrawn>>

NextConcurrent ==
    \E t \in Threads :
        \/ \E v \in ThreadInputs, seed \in Seeds : ThreadCall(t, v, seed)
        \/ ThreadSeed(t)
        \/ ThreadDraw(t)
        \/ ThreadRestore(t)

SpecConcurrent == Init /\ [][NextConcurrent]_vars

\* ------------------------------------------------------------------------
\* reading arrays in the properties
\* ------------------------------------------------------------------------

\* vector i of a batch of vectors, matrix i of a batch of matrices
Row(a, i) == <<At2(a, i, 1), At2(a, i, 2)>>

MatAt(a, i) == <<<<At3(a, i, 1, 1), At3(a, i, 1, 2)>>, <<At3(a, i, 2, 1), At3(a, i, 2, 2)>>>>

\* the 2x2 matrix held by an array of shape (2, 2)
MatOf(a) == <<<<a.data[1], a.data[2]>>, <<a.data[3], a.data[4]>>>>

\* the product of a 2x2 matrix and a vector, written out
MatVec(m, v) ==
    <<Add(Mul(m[1][1], v[1]), Mul(m[1][2], v[2])),
      Add(Mul(m[2][1], v[1]), Mul(m[2][2], v[2]))>>

Len1(a) == a.shape[1]

IsUnitVec(v) == Add(Mul(v[1], v[1]), Mul(v[2], v[2])) = One

AllUnit(a) == \A i \in 1..Len1(a) : IsUnitVec(Row(a, i))

C2_SharedEqualsBatched ==
    (op = "rotate_vector_collection" /\ args[1].shape = <<2, 2>>)
        => LET M == MatOf(args[1])
               N == Len1(args[2])
               repeated == MkMats([i \in 1..N |-> M])
           IN  /\ IsArr(result)
               /\ result.shape = <<N, 2>>
               /\ result = rotate_vector_collection(repeated, args[2], FALSE, TRUE)
               /\ \A i \in 1..N : Row(result, i) = MatVec(M, Row(args[2], i))

C2_Witness ==
    /\ op = "rotate_vector_collection"
    /\ args[1] = MkMat(GeneralMat)
    /\ Len1(args[2]) = 3
    /\ Row(args[2], 1) # Row(args[2], 2)
    /\ Row(result, 2) = MatVec(GeneralMat, Row(args[2], 2))

\* ------------------------------------------------------------------------
\* C6  Sign convention: rotation_matrices_from_angles returns one matrix per
\* angle, in input order (a scalar gives one matrix), and matrix i is
\* [[cos a_i, sin a_i], [-sin a_i, cos a_i]]; angle 0 gives the identity
\* and the angles [0, pi/2] give [[[1,0],[0,1]], [[0,1],[-1,0]]].
\* ------------------------------------------------------------------------

\* the matrix the convention asks for at k quarter turns, written out
ConventionMat(k) ==
    LET r == k % 4
        m(a, b, c, d) == <<Vec(Int2Num(a), Int2Num(b)), Vec(Int2Num(c), Int2Num(d))>>
    IN  IF r = 0 THEN m(1, 0, 0, 1)
        ELSE IF r = 1 THEN m(0, 1, -1, 0)
        ELSE IF r = 2 THEN m(-1, 0, 0, -1)
        ELSE m(0, -1, 1, 0)

C6_SignConvention ==
    (op = "rotation_matrices_from_angles")
        => LET a == args[1]
               N == IF a.shape = <<>> THEN 1 ELSE Len1(a)
           IN  /\ IsArr(result)
               /\ result.shape = <<N, 2, 2>>
               /\ \A i \in 1..N : MatAt(result, i) = ConventionMat(a.data[i].n)
               /\ (a \in {MkScalar(Zero), MkList(<<Zero>>)}
                     => result = MkMats(<<IdentityMat>>))
               /\ (a = MkList(<<Zero, One>>)
                     => result = MkMats(<<IdentityMat, QuarterMat>>))

C6_Witness ==
    /\ op = "rotation_matrices_from_angles"
    /\ args[1] = MkList(<<Zero, One>>)
    /\ result = MkMats(<<IdentityMat, QuarterMat>>)

\* ------------------------------------------------------------------------
\* C7  Orthogonality: every matrix M that rotation_matrices_from_angles
\* returns satisfies M . M^T = Identity and det(M) = 1.
\* ------------------------------------------------------------------------
IsRotation(m) ==
    /\ Add(Mul(m[1][1], m[1][1]), Mul(m[1][2], m[1][2])) = One
    /\ Add(Mul(m[2][1], m[2][1]), Mul(m[2][2], m[2][2])) = One
    /\ Add(Mul(m[1][1], m[2][1]), Mul(m[1][2], m[2][2])) = Zero
    /\ Sub(Mul(m[1][1], m[2][2]), Mul(m[1][2], m[2][1])) = One

C7_Orthogonal ==
    (op = "rotation_matrices_from_angles")
        => /\ IsArr(result)
           /\ \A i \in 1..Len1(result) : IsRotation(MatAt(result, i))

C7_Witness ==
    /\ op = "rotation_matrices_from_angles"
    /\ args[1] = MkList(<<Int2Num(3), Int2Num(-2)>>)
    /\ MatAt(result, 1) # IdentityMat
    /\ IsRotation(MatAt(result, 1))
    /\ IsRotation(MatAt(result, 2))

\* ------------------------------------------------------------------------
\* C9  Length check in batched mode.
\* ------------------------------------------------------------------------

\* batched mode: a batch of K matrices and a batch of N vectors
Batched == op = "rotate_vector_collection" /\ args[1].shape # <<2, 2>>

\* item i of the output is matrix i times vector i, a single matrix or a
\* single vector standing for every item
ItemWise ==
    LET K == Len1(args[1])
        N == Len1(args[2])
    IN  /\ IsArr(result)
        /\ result.shape = <<BDim(K, N), 2>>
        /\ \A i \in 1..BDim(K, N) :
              Row(result, i) = MatVec(MatAt(args[1], BIdx(K, i)), Row(args[2], BIdx(N, i)))

\* C9 as stated: in batched mode, whenever the matrix batch length differs
\* from the vector batch length (a matrix batch of length 1 included) the call
\* ends in an error and returns no vectors; with equal lengths item i of the
\* output depends only on matrix i and vector i.
C9_Original ==
    Batched => IF Len1(args[1]) # Len1(args[2]) THEN IsError(result) ELSE ItemWise

\* C9 as amended: in batched mode with K matrices and N vectors, the call
\* ends in an error when K and N differ and neither is 1; when they differ
\* and one of them is 1, that single matrix or vector is used for every item
\* and the output has the other length; with equal lengths item i of the
\* output is matrix i times vector i.
C9_LengthCheck ==
    Batched => IF BDim(Len1(args[1]), Len1(args[2])) < 0
               THEN result = Raise("ValueError")
               ELSE ItemWise

C9_Witness ==
    /\ Batched
    /\ Len1(args[1]) = 2
    /\ Len1(args[2]) = 3
    /\ result = Raise("ValueError")

\* ------------------------------------------------------------------------
\* C10  rotation2d(ux, uy), for batches of N >= 1 vectors, returns N 2x2
\* matrices r[i] = [[e_x.ux, e_x.uy], [e_y.ux, e_y.uy]] of the normalized
\* ux[i], uy[i] against the standard basis.
\* ------------------------------------------------------------------------
C10_BasisMatrices ==
    (op = "rotation2d" /\ Len1(args[1]) >= 1 /\ Len1(args[1]) = Len1(args[2]))
        => LET nx == normalized_vectors(args[1])
               ny == normalized_vectors(args[2])
           IN  /\ IsArr(result)
               /\ result.shape = <<Len1(args[1]), 2, 2>>
               /\ \A i \in 1..Len1(args[1]) :
                     MatAt(result, i) = <<Vec(At2(nx, i, 1), At2(ny, i, 1)),
                                         Vec(At2(nx, i, 2), At2(ny, i, 2))>>

\* ------------------------------------------------------------------------
\* C3  Perpendicularity of random_perpendicular_directions.
\* ------------------------------------------------------------------------

DotVec(a, b) == Add(Mul(a[1], b[1]), Mul(a[2], b[2]))

CrossVec(a, b) == Sub(Mul(a[1], b[2]), Mul(a[2], b[1]))

IsZeroVec(a) == a = Vec(Zero, Zero)

\* a call of random_perpendicular_directions whose draw succeeded
PerpReturned == op = "random_perpendicular_directions" /\ IsArr(drawn)

\* item i of the result is a unit vector orthogonal to item i of the input
UnitAndOrthogonal(i) ==
    /\ IsUnitVec(Row(result, i))
    /\ DotVec(Row(AtLeast2d(args[1]), i), Row(result, i)) = Zero

C4_SeedScoped ==
    (op = "random_perpendicular_directions" /\ args[2] # None)
        => /\ rng = rngBefore
           /\ (IsArr(result) /\ hist # <<>> /\ hist[1].v = args[1] /\ hist[1].seed = args[2])
                 => result = hist[1].result

\* a seeded call repeated from another generator state, neither of them the
\* state the seed stands for
C4_Witness ==
    /\ op = "random_perpendicular_directions"
    /\ args[2] # None
    /\ IsArr(result)
    /\ hist # <<>>
    /\ hist[1].v = args[1]
    /\ hist[1].seed = args[2]
    /\ hist[1].before # rngBefore
    /\ rngBefore # SeedState(args[2], 0)
    /\ rng = rngBefore
    /\ result = hist[1].result
    /\ IsUnitVec(Row(result, 1))

\* ------------------------------------------------------------------------
\* C5  No interference between concurrent seeded calls: when every thread
\* has finished, each call has returned what it returns when run alone with
\* its seed, and the generator is in the state it was in before the first
\* call began.
\* ------------------------------------------------------------------------
C5_NoInterference ==
    (\A t \in Threads : tpc[t] = "done")
        => /\ \A t \in Threads :
                 tresult[t] =
                     random_perpendicular_directions(targs[t][1], targs[t][2], 0, 0, FALSE).result
           /\ rng = rngBefore

\* ------------------------------------------------------------------------
\* C8  random_rotation(vectors) draws one angle, builds one rotation matrix
\* from it, applies that matrix to every vector of the batch and returns the
\* N rotated vectors without raising.
\* ------------------------------------------------------------------------
C8_RandomRotation ==
    (op = "random_rotation")
        => LET M == MatAt(rotation_matrices_from_angles(drawn), 1)
           IN  /\ IsArr(result)
               /\ result.shape = <<Len1(args[1]), 2>>
               /\ \A i \in 1..Len1(args[1]) : Row(result, i) = MatVec(M, Row(args[1], i))

=============================================================================
